---- MODULE Spec2Model ----
(***************************************************************************)
(* State-machine model of the Java code-graph pipeline:                    *)
(*   discovery -> per-file AST extraction -> Project Index and             *)
(*   relationship resolution -> ordered graph load.                        *)
(* Three extractor/resolver variants (java_ast, java_ast_v2,              *)
(* java_ast_analyzer) and two loaders (graph, graph_upsert_v2) are         *)
(* modelled; the variant pair is chosen in Init.                           *)
(*                                                                         *)
(* Strings are sequences of atoms (a character, or an indivisible token    *)
(* such as ".java"); the dot "." and the slash "/" are always atoms of     *)
(* their own, so split('.'), endswith and basename are computed as the     *)
(* code computes them.  Python's None is the one-atom sequence None.       *)
(***************************************************************************)
EXTENDS Integers, Sequences, FiniteSets, TLC

VARIABLES
    analyzer,   \* which extractor/resolver runs
    loader,     \* which loader runs
    sources,    \* the discovered files, parsed, in discovery order
    files,      \* project_structure['files']: <<[key, rec], ...>> in dict order
    pc,         \* "extract", "load", "done" or "failed"
    writes,     \* the statements load_project issues for the loaded model
    wi,         \* index of the next statement of writes
    store,      \* the graph store
    run,        \* which call of load_project on this model is running: 1 or 2
    before,     \* the store as it was when the running load_project was called
    submitted,  \* how many extraction tasks the loop has submitted
    pending,    \* the submitted tasks that have not finished, by file index
    results     \* the finished tasks whose result the loop has not stored yet

vars == <<analyzer, loader, sources, files, pc, writes, wi, store, run, before,
          submitted, pending, results>>

\* Largest number of source files in a discovered project.
MaxFiles == 2

----------------------------------------------------------------------------
(* Strings and Python helpers *)

None == <<"None">>
Empty == <<>>
Dot == "."
Slash == "/"

\* Python truthiness of an optional string: None and "" are falsy.
Truthy(s) == s # None /\ s # Empty

\* dict.get(key, default): the stored value (also when it is None), else default.
Get(rec, key, default) == IF key \in DOMAIN rec THEN rec[key] ELSE default

RECURSIVE SplitFrom(_, _, _, _)
SplitFrom(s, sep, i, cur) ==
    IF i > Len(s) THEN <<cur>>
    ELSE IF s[i] = sep THEN <<cur>> \o SplitFrom(s, sep, i + 1, <<>>)
    ELSE SplitFrom(s, sep, i + 1, Append(cur, s[i]))

\* str.split(sep)
Split(s, sep) == SplitFrom(s, sep, 1, <<>>)

RECURSIVE Join(_, _)
\* sep.join(parts)
Join(parts, sep) ==
    IF Len(parts) = 0 THEN <<>>
    ELSE IF Len(parts) = 1 THEN parts[1]
    ELSE parts[1] \o <<sep>> \o Join(Tail(parts), sep)

\* str.endswith(t)
EndsWith(s, t) ==
    /\ Len(t) <= Len(s)
    /\ SubSeq(s, Len(s) - Len(t) + 1, Len(s)) = t

\* os.path.basename(path)
Basename(path) == LET parts == Split(path, Slash) IN parts[Len(parts)]

Range(f) == {f[i] : i \in DOMAIN f}

RECURSIVE Concat(_)
\* Concatenation of a sequence of sequences.
Concat(ss) == IF Len(ss) = 0 THEN <<>> ELSE ss[1] \o Concat(Tail(ss))

\* [F(x) for x in seq if P(x)] is written Concat([i \in DOMAIN seq |-> ...]).
SelectSeqIdx(seq, Keep(_)) ==
    Concat([i \in DOMAIN seq |-> IF Keep(seq[i]) THEN <<seq[i]>> ELSE <<>>])

\* f"{package}.{name}" if package else name
FullName(package, name) ==
    IF Truthy(package) THEN package \o <<Dot>> \o name ELSE name

----------------------------------------------------------------------------
(* The parsed source of one file: what the external parser hands to the    *)
(* extractor.  err # None means that reading or parsing the file raises.   *)
(* A type node carries the syntactic kind of each type it mentions, since  *)
(* the tree-sitter extractor only reads some kinds.                        *)

Param(name, tkind, tname) == [name |-> name, tkind |-> tkind, tname |-> tname]

Field(name, tkind, tname) == [name |-> name, tkind |-> tkind, tname |-> tname]

\* body: the text of the method's block, braces included, or None.
\* lines: the lines of the file from the line of the declaration onwards.
\* llm: what the external summarisation call does for this method.
Method(name, rkind, rname, params, doc, body, lines, refs, llm) ==
    [name |-> name, rkind |-> rkind, rname |-> rname, params |-> params,
     doc |-> doc, body |-> body, lines |-> lines, refs |-> refs, llm |-> llm]

Class(name, extends, implements, fields, methods) ==
    [kind |-> "class", name |-> name, extends |-> extends,
     implements |-> implements, fields |-> fields, methods |-> methods]

Interface(name, extends, methods) ==
    [kind |-> "interface", name |-> name, extends |-> extends,
     implements |-> <<>>, fields |-> <<>>, methods |-> methods]

Parsed(path, package, imports, types) ==
    [path |-> path, err |-> None, package |-> package, imports |-> imports,
     types |-> types]

Unparsable(path, err) ==
    [path |-> path, err |-> err, package |-> None, imports |-> <<>>,
     types |-> <<>>]

----------------------------------------------------------------------------
(* Names used by the source files below *)

nA == <<"A">>
nG == <<"G">>
nI == <<"I">>
nJ == <<"J">>
nY == <<"Y">>
pkgP == <<"p">>
pkgAB == <<"a", ".", "b">>
pkgABC == <<"a", ".", "b", ".", "c">>
impJL == <<"j", ".", "L">>
impABY == <<"a", ".", "b", ".", "Y">>
impABYK == <<"a", ".", "b", ".", "Y", ".", "K">>
impQZY == <<"q", ".", "Z", "Y">>
tInt == <<"int">>
tList == <<"List">>
tVoid == <<"void">>
txtB1 == <<"{", "1", "}">>
txtB2 == <<"{", "\n", "2", "\n", "}">>
txtB3 == <<"{", "\n", "3", "\n", "}">>
\* Source lines: "h" stands for the text of a declaration before its brace.
lnHead == <<"h", "{">>
lnClose == <<"}">>
lnOneLine == <<"h", "{", "1", "}">>
lnAbstract == <<"h", ";">>
txtDoc == <<"/", "*", "*", "/">>

\* package p; class A implements I { void run() {1} }
SrcA ==
    Parsed(<<"A", ".java">>, pkgP, <<>>,
        <<Class(nA, None, <<nI>>, <<>>,
            <<Method(<<"run">>, "void_type", tVoid, <<>>, None, txtB1,
                     <<lnOneLine, lnClose>>, <<nI>>, "ok")>>)>>)

\* package p; interface I { void run(); }
SrcB ==
    Parsed(<<"B", ".java">>, pkgP, <<>>,
        <<Interface(nI, <<>>,
            <<Method(<<"run">>, "void_type", tVoid, <<>>, txtDoc, None,
                     <<lnAbstract, lnClose>>, <<>>, "raise")>>)>>)

\* a file whose read or parse raises
SrcBad == Unparsable(<<"X", ".java">>, <<"E">>)

\* (no package) import j.L; class Y { }
SrcY ==
    Parsed(<<"Y", ".java">>, None, <<impJL>>,
        <<Class(nY, None, <<>>, <<>>, <<>>)>>)

\* package a.b; import Y; class Y extends A { }
SrcPY ==
    Parsed(<<"d", "/", "Y", ".java">>, pkgAB, <<nY>>,
        <<Class(nY, nA, <<>>, <<>>, <<>>)>>)

\* package a.b.c; import a.b.Y; import q.ZY; import a.b.Y.K; import j.L;
\* class G extends Y { int n; List<G> xs;
\*   int f() {1}
\*   void f(int x) {
\*   2
\*   }
\*   List<G> g(List<G> y) {
\*   3
\*   }
\* }
SrcG ==
    Parsed(<<"G", ".java">>, pkgABC, <<impABY, impQZY, impABYK, impJL>>,
        <<Class(nG, nY, <<>>,
            <<Field(<<"n">>, "primitive_type", tInt),
              Field(<<"x", "s">>, "generic_type", tList)>>,
            <<Method(<<"f">>, "primitive_type", tInt, <<>>, None, txtB1,
                     <<lnOneLine, lnHead, <<"2">>, lnClose, lnHead, <<"3">>, lnClose,
                       lnClose>>, <<>>, "ok"),
              Method(<<"f">>, "void_type", tVoid,
                     <<Param(<<"x">>, "primitive_type", tInt)>>, None, txtB2,
                     <<lnHead, <<"2">>, lnClose, lnHead, <<"3">>, lnClose, lnClose>>,
                     <<nY, nG>>, "raise"),
              Method(<<"g">>, "generic_type", tList,
                     <<Param(<<"y">>, "generic_type", tList)>>, None, txtB3,
                     <<lnHead, <<"3">>, lnClose, lnClose>>, <<>>, "ok")>>)>>)

\* package p; class A extends Y { }  interface J extends I { }
SrcA2 ==
    Parsed(<<"e", "/", "A", ".java">>, pkgP, <<impJL>>,
        <<Class(nA, nY, <<>>, <<>>, <<>>),
          Interface(nJ, <<nI>>, <<>>)>>)

\* package p; abstract class K {
\*   abstract void h();
\*   void k() {
\*   2
\*   }
\* }
SrcK ==
    Parsed(<<"K", ".java">>, pkgP, <<>>,
        <<Class(<<"K">>, None, <<>>, <<>>,
            <<Method(<<"h">>, "void_type", tVoid, <<>>, None, None,
                     <<lnAbstract, lnHead, <<"2">>, lnClose, lnClose>>, <<>>, "ok"),
              Method(<<"k">>, "void_type", tVoid, <<>>, None, txtB2,
                     <<lnHead, <<"2">>, lnClose, lnClose>>, <<>>, "ok")>>)>>)

\* The source files a project may be made of; every file has its own path.
SourcePool == {SrcA, SrcB, SrcBad, SrcY, SrcPY, SrcG, SrcA2, SrcK}

\* The root the project is analysed under (project_path).
ProjectPath == <<"r">>

----------------------------------------------------------------------------
(* AST Extractor: java_ast.py (javalang, declarations only) *)

ClassesOf(src) == SelectSeqIdx(src.types, LAMBDA t : t.kind = "class")
InterfacesOf(src) == SelectSeqIdx(src.types, LAMBDA t : t.kind = "interface")

\* javalang: method.return_type is None for a method declared void.
JavalangReturnType(m) == IF m.rkind = "void_type" THEN None ELSE m.rname

java_ast_method_info(m) ==
    [name |-> m.name,
     return_type |-> JavalangReturnType(m),
     parameters |-> [i \in DOMAIN m.params |-> m.params[i].name]]

java_ast_extract_ast_info(src) ==
    [package |-> src.package,
     imports |-> src.imports,
     classes |-> LET cs == ClassesOf(src) IN
        [i \in DOMAIN cs |->
            [name |-> cs[i].name, extends |-> cs[i].extends,
             implements |-> cs[i].implements,
             methods |-> [j \in DOMAIN cs[i].methods |->
                            java_ast_method_info(cs[i].methods[j])]]],
     interfaces |-> LET is == InterfacesOf(src) IN
        [i \in DOMAIN is |->
            [name |-> is[i].name, extends |-> is[i].extends,
             methods |-> [j \in DOMAIN is[i].methods |->
                            java_ast_method_info(is[i].methods[j])]]],
     methods |-> <<>>]

----------------------------------------------------------------------------
(* AST Extractor: java_ast_v2.py (javalang, with fields, bodies, summaries) *)

\* What generate_method_description returns when the external call raises.
DescriptionFallback == <<"description could not be generated">>
\* What the external call returns (already stripped) when it succeeds.
DescriptionText == <<"summary">>

generate_method_description(m) ==
    IF m.llm = "ok" THEN DescriptionText ELSE DescriptionFallback

\* line.count(a)
Count(line, a) == Cardinality({p \in DOMAIN line : line[p] = a})

\* line.find(a) and line.rfind(a), as 1-based positions; a occurs in line.
Find(line, a) == CHOOSE p \in DOMAIN line : line[p] = a /\ \A q \in 1..(p - 1) : line[q] # a
RFind(line, a) ==
    CHOOSE p \in DOMAIN line : line[p] = a /\ \A q \in (p + 1)..Len(line) : line[q] # a

Whitespace == {" ", "\n"}

RECURSIVE Strip(_)
\* str.strip()
Strip(s) ==
    IF Len(s) = 0 THEN s
    ELSE IF s[1] \in Whitespace THEN Strip(Tail(s))
    ELSE IF s[Len(s)] \in Whitespace THEN Strip(SubSeq(s, 1, Len(s) - 1))
    ELSE s

RECURSIVE ScanBody(_, _, _, _, _)
\* The for loop of extract_method_body from line k on: the body_lines it
\* ends with.
ScanBody(source_lines, k, found_start, brace_count, body_lines) ==
    IF k > Len(source_lines) THEN body_lines
    ELSE
    LET line == source_lines[k]
        count == brace_count + Count(line, "{") - Count(line, "}")
    IN  IF "{" \in Range(line) /\ ~found_start
        THEN ScanBody(source_lines, k + 1, TRUE, count,
                IF count > 0 /\ Find(line, "{") < Len(line)
                THEN Append(body_lines, SubSeq(line, Find(line, "{") + 1, Len(line)))
                ELSE body_lines)
        ELSE IF found_start
        THEN IF count = 0
             THEN Append(body_lines,
                    IF "}" \in Range(line)
                    THEN SubSeq(line, 1, RFind(line, "}") - 1)
                    ELSE line)
             ELSE ScanBody(source_lines, k + 1, TRUE, count, Append(body_lines, line))
        ELSE ScanBody(source_lines, k + 1, FALSE, brace_count, body_lines)

\* lines: source_code.splitlines()[start_line:]
extract_method_body(lines) ==
    Strip(Join(ScanBody(lines, 1, FALSE, 0, <<>>), "\n"))

java_ast_v2_method_info(m) ==
    [name |-> m.name,
     return_type |-> JavalangReturnType(m),
     parameters |-> [i \in DOMAIN m.params |->
                        [name |-> m.params[i].name, type |-> m.params[i].tname]],
     documentation |-> m.doc,
     description |-> generate_method_description(m),
     body |-> extract_method_body(m.lines)]

java_ast_v2_extract_ast_info(src) ==
    [package |-> src.package,
     imports |-> src.imports,
     classes |-> LET cs == ClassesOf(src) IN
        [i \in DOMAIN cs |->
            [name |-> cs[i].name, extends |-> cs[i].extends,
             implements |-> cs[i].implements,
             methods |-> [j \in DOMAIN cs[i].methods |->
                            java_ast_v2_method_info(cs[i].methods[j])],
             fields |-> [j \in DOMAIN cs[i].fields |->
                            [name |-> cs[i].fields[j].name,
                             type |-> cs[i].fields[j].tname]]]],
     interfaces |-> LET is == InterfacesOf(src) IN
        [i \in DOMAIN is |->
            [name |-> is[i].name, extends |-> is[i].extends,
             methods |-> [j \in DOMAIN is[i].methods |->
                            java_ast_v2_method_info(is[i].methods[j])]]]]

----------------------------------------------------------------------------
(* AST Extractor: java_ast_analyzer.py (tree-sitter, with object references) *)

\* The text of the first child whose node type is one of kinds, else None.
NodeText(tkind, text, kinds) == IF tkind \in kinds THEN text ELSE None

\* Only a scoped_identifier child is read: a one-segment name is not one.
IsScoped(name) == Dot \in Range(name)

extract_package_name(src) ==
    IF src.package # None /\ IsScoped(src.package) THEN src.package ELSE None

extract_imports(src) == SelectSeqIdx(src.imports, IsScoped)

extract_method_parameters(m) ==
    LET typed == [i \in DOMAIN m.params |->
                    [name |-> m.params[i].name,
                     type |-> NodeText(m.params[i].tkind, m.params[i].tname,
                                {"type_identifier", "array_type", "primitive_type"})]]
    IN SelectSeqIdx(typed, LAMBDA q : Truthy(q.name) /\ Truthy(q.type))

Primitives ==
    {<<"int">>, <<"long">>, <<"double">>, <<"float">>, <<"boolean">>, <<"char">>,
     <<"byte">>, <<"short">>, <<"void">>, <<"String">>}

\* m.refs: the names the three patterns match in the body text.
find_object_references(m) ==
    IF ~Truthy(m.body) THEN <<>>
    ELSE SelectSeqIdx(m.refs, LAMBDA r : r \notin Primitives)

ReturnTypeText(m) ==
    NodeText(m.rkind, m.rname, {"type_identifier", "void_type", "primitive_type"})

extract_class_methods(c) ==
    [j \in DOMAIN c.methods |->
        [name |-> c.methods[j].name,
         return_type |-> ReturnTypeText(c.methods[j]),
         parameters |-> extract_method_parameters(c.methods[j]),
         body |-> c.methods[j].body,
         referenced_objects |-> find_object_references(c.methods[j])]]

extract_interface_methods(c) ==
    [j \in DOMAIN c.methods |->
        [name |-> c.methods[j].name,
         return_type |-> ReturnTypeText(c.methods[j]),
         parameters |-> extract_method_parameters(c.methods[j])]]

extract_class_fields(c) ==
    [j \in DOMAIN c.fields |->
        [name |-> c.fields[j].name,
         type |-> NodeText(c.fields[j].tkind, c.fields[j].tname,
                           {"type_identifier", "primitive_type"})]]

\* The object references of one class: every referenced name but its own.
ClassObjectReferences(name, methods) ==
    Concat([j \in DOMAIN methods |->
        LET refs == methods[j].referenced_objects IN
        Concat([k \in DOMAIN refs |->
            IF refs[k] # name
            THEN <<[class |-> name, method |-> methods[j].name,
                    referenced_object |-> refs[k]]>>
            ELSE <<>>])])

java_ast_analyzer_extract_ast_info(src) ==
    LET cs == ClassesOf(src)
        is == InterfacesOf(src)
        classes == [i \in DOMAIN cs |->
            [name |-> cs[i].name, extends |-> cs[i].extends,
             implements |-> cs[i].implements,
             fields |-> extract_class_fields(cs[i]),
             methods |-> extract_class_methods(cs[i])]]
    IN [package |-> extract_package_name(src),
        imports |-> extract_imports(src),
        classes |-> classes,
        interfaces |-> [i \in DOMAIN is |->
            [name |-> is[i].name, extends |-> is[i].extends,
             methods |-> extract_interface_methods(is[i])]],
        object_references |-> Concat([i \in DOMAIN classes |->
            ClassObjectReferences(classes[i].name, classes[i].methods)])]

----------------------------------------------------------------------------
(* process_java_file: one record per file, a failure caught and tagged *)

Analyzers == {"java_ast", "java_ast_v2", "java_ast_analyzer"}

extract_ast_info(an, src) ==
    CASE an = "java_ast" -> java_ast_extract_ast_info(src)
      [] an = "java_ast_v2" -> java_ast_v2_extract_ast_info(src)
      [] an = "java_ast_analyzer" -> java_ast_analyzer_extract_ast_info(src)

\* os.path.join(root, file) for the file found under project_path
AbsPath(rel) == ProjectPath \o <<Slash>> \o rel

\* Mutant: the handler swallows the failure and returns an empty record.
process_java_file_swallowing(an, src) ==
    IF src.err # None
    THEN [path |-> AbsPath(src.path), package |-> None, imports |-> <<>>,
          classes |-> <<>>, interfaces |-> <<>>]
    ELSE extract_ast_info(an, src) @@ [path |-> AbsPath(src.path)]

process_java_file(an, src) ==
    IF src.err # None
    THEN [path |-> AbsPath(src.path), error |-> src.err]
    ELSE extract_ast_info(an, src) @@ [path |-> AbsPath(src.path)]

IsError(rec) == "error" \in DOMAIN rec

----------------------------------------------------------------------------
(* Project Index and Relationship Resolver: analyze_relationships *)

\* The exact resolver (java_ast.py) indexes classes only and keeps every
\* import; the heuristic resolver (java_ast_v2.py, java_ast_analyzer.py)
\* indexes interfaces too and keeps the imports it takes for internal.
Heuristic(an) == an # "java_ast"

\* Mutant: only the simple names are indexed.
FileIndexEntries_simple_names(an, key, rec) ==
    LET cs == Get(rec, "classes", <<>>)
        is == Get(rec, "interfaces", <<>>)
    IN  [i \in DOMAIN cs |-> <<cs[i].name, key>>]
        \o (IF Heuristic(an) THEN [i \in DOMAIN is |-> <<is[i].name, key>>] ELSE <<>>)

\* The class_map[...] = file_path assignments of one file, in program order.
FileIndexEntries(an, key, rec) ==
    LET package == Get(rec, "package", Empty)
        cs == Get(rec, "classes", <<>>)
        is == Get(rec, "interfaces", <<>>)
    IN  Concat([i \in DOMAIN cs |->
            << <<FullName(package, cs[i].name), key>>, <<cs[i].name, key>> >>])
        \o
        (IF Heuristic(an)
         THEN Concat([i \in DOMAIN is |->
            << <<FullName(package, is[i].name), key>>, <<is[i].name, key>> >>])
         ELSE <<>>)

IndexEntries(an, fs) ==
    Concat([i \in DOMAIN fs |->
        IF IsError(fs[i].rec) THEN <<>>
        ELSE FileIndexEntries(an, fs[i].key, fs[i].rec)])

\* A dict built by assignments in order: the last assignment to a key wins.
DictOf(entries) ==
    [n \in {entries[i][1] : i \in DOMAIN entries} |->
        LET last == CHOOSE i \in DOMAIN entries :
                        /\ entries[i][1] = n
                        /\ \A j \in DOMAIN entries : entries[j][1] = n => j <= i
        IN entries[last][2]]

class_map(an, fs) == DictOf(IndexEntries(an, fs))

\* The dependency record of a raw target: the file pointer only on an index hit.
Dependency(type, target, cm) ==
    IF target \in DOMAIN cm
    THEN [type |-> type, target |-> target, file |-> cm[target]]
    ELSE [type |-> type, target |-> target]

\* Mutant: the dot-segment test is left out.
is_internal_suffix_only(import_path, cm) ==
    \E class_name \in DOMAIN cm : EndsWith(import_path, class_name)

is_internal(import_path, cm) ==
    \E class_name \in DOMAIN cm :
        \/ EndsWith(import_path, class_name)
        \/ class_name \in Range(Split(import_path, Dot))

ImportDependencies(an, rec, cm) ==
    LET imports == Get(rec, "imports", <<>>) IN
    Concat([i \in DOMAIN imports |->
        IF Heuristic(an)
        THEN IF is_internal(imports[i], cm) \/ imports[i] \in DOMAIN cm
             THEN <<Dependency("import", imports[i], cm)>>
             ELSE <<>>
        ELSE <<Dependency("import", imports[i], cm)>>])

ClassDependencies(rec, cm) ==
    LET cs == Get(rec, "classes", <<>>) IN
    Concat([i \in DOMAIN cs |->
        (IF Truthy(Get(cs[i], "extends", None))
         THEN <<Dependency("extends", cs[i].extends, cm)>>
         ELSE <<>>)
        \o
        LET impl == Get(cs[i], "implements", <<>>) IN
        [j \in DOMAIN impl |-> Dependency("implements", impl[j], cm)]])

\* Mutant: the second loop does not skip error records.
analyze_relationships_all_records(an, fs) ==
    LET cm == class_map(an, fs) IN
    [i \in DOMAIN fs |->
        [key |-> fs[i].key,
         rec |-> [dependencies |->
                     ImportDependencies(an, fs[i].rec, cm)
                     \o ClassDependencies(fs[i].rec, cm)]
                 @@ fs[i].rec]]

analyze_relationships(an, fs) ==
    LET cm == class_map(an, fs) IN
    [i \in DOMAIN fs |->
        IF IsError(fs[i].rec) THEN fs[i]
        ELSE [key |-> fs[i].key,
              rec |-> [dependencies |->
                          ImportDependencies(an, fs[i].rec, cm)
                          \o ClassDependencies(fs[i].rec, cm)]
                      @@ fs[i].rec]]

\* analyze_object_references builds its own index, by the same assignments.
analyze_object_references(an, fs) ==
    LET cm == class_map(an, fs) IN
    [i \in DOMAIN fs |->
        IF IsError(fs[i].rec) \/ "object_references" \notin DOMAIN fs[i].rec
        THEN fs[i]
        ELSE [key |-> fs[i].key,
              rec |-> [object_references |->
                LET refs == fs[i].rec.object_references IN
                Concat([k \in DOMAIN refs |->
                    IF refs[k].referenced_object \in DOMAIN cm
                    THEN <<[from_class |-> refs[k].class,
                            from_method |-> refs[k].method,
                            to_class |-> refs[k].referenced_object,
                            to_file |-> cm[refs[k].referenced_object]]>>
                    ELSE <<>>])]
                @@ fs[i].rec]]

\* What analyze_java_project does once every record is stored.
Resolve(an, fs) ==
    IF an = "java_ast_analyzer"
    THEN analyze_object_references(an, analyze_relationships(an, fs))
    ELSE analyze_relationships(an, fs)

----------------------------------------------------------------------------
(* The graph store and the Cypher statements the loaders issue.            *)
(* A node is [id, label, props]; a relationship is [src, type, dst] over   *)
(* node ids.  A pattern is [label, props]: label "" matches any label.     *)
(* An id is the identity of a node: a node created after a delete is a new *)
(* node, so ids are handed out from a counter that a delete does not reset. *)

NoProps == [k \in {} |-> None]
EmptyStore == [nodes |-> {}, rels |-> {}, next |-> 1]

Pattern(label, props) == [label |-> label, props |-> props]

\* (n:Label {k: v, ...}): a null parameter value matches no node.
Matches(n, pat) ==
    /\ pat.label = "" \/ n.label = pat.label
    /\ \A k \in DOMAIN pat.props :
        /\ pat.props[k] # None
        /\ k \in DOMAIN n.props
        /\ n.props[k] = pat.props[k]

Matching(st, pat) == {n \in st.nodes : Matches(n, pat)}

NextId(st) == st.next

AddNode(st, label, props) ==
    [st EXCEPT !.nodes = @ \cup {[id |-> NextId(st), label |-> label, props |-> props]},
               !.next = @ + 1]

AddRels(st, srcs, type, dsts) ==
    [st EXCEPT !.rels = @ \cup
        {[src |-> a.id, type |-> type, dst |-> b.id] : a \in srcs, b \in dsts}]

\* The statements
Clear == [op |-> "clear"]
Create(label, props) == [op |-> "create", label |-> label, props |-> props]
MergeNode(label, props) == [op |-> "merge_node", label |-> label, props |-> props]
MergeRel(src, type, dst) == [op |-> "merge_rel", src |-> src, type |-> type, dst |-> dst]
MatchMergeNodeRel(src, type, label, props) ==
    [op |-> "match_merge", src |-> src, type |-> type, label |-> label, props |-> props]
\* A Python exception raised by the loader itself, between two statements.
Raise == [op |-> "raise"]

HasNullProp(props) == \E k \in DOMAIN props : props[k] = None

\* MERGE (n:Label {props}): match, else create with exactly these properties.
ApplyMergeNode(st, label, props) ==
    IF Matching(st, Pattern(label, props)) # {} THEN st
    ELSE AddNode(st, label, props)

\* The statement fails: MERGE refuses a null property value.
Fails(w) ==
    \/ w.op = "raise"
    \/ w.op \in {"merge_node", "match_merge"} /\ HasNullProp(w.props)

\* Mutant: the reset deletes the relationships and leaves the nodes.
ApplyWrite_reset_keeps_nodes(st, w) ==
    CASE w.op = "clear" -> [st EXCEPT !.rels = {}]
      [] w.op = "create" -> AddNode(st, w.label, w.props)
      [] w.op = "merge_node" -> ApplyMergeNode(st, w.label, w.props)
      [] w.op = "merge_rel" ->
            AddRels(st, Matching(st, w.src), w.type, Matching(st, w.dst))
      [] w.op = "match_merge" ->
            IF Matching(st, w.src) = {} THEN st
            ELSE LET st2 == ApplyMergeNode(st, w.label, w.props) IN
                 AddRels(st2, Matching(st2, w.src), w.type,
                         Matching(st2, Pattern(w.label, w.props)))
      [] OTHER -> st

\* _execute_query: the store after the statement w ran to completion.
ApplyWrite(st, w) ==
    CASE w.op = "clear" -> [EmptyStore EXCEPT !.next = st.next]
      [] w.op = "create" -> AddNode(st, w.label, w.props)
      [] w.op = "merge_node" -> ApplyMergeNode(st, w.label, w.props)
      [] w.op = "merge_rel" ->
            AddRels(st, Matching(st, w.src), w.type, Matching(st, w.dst))
      [] w.op = "match_merge" ->
            IF Matching(st, w.src) = {} THEN st
            ELSE LET st2 == ApplyMergeNode(st, w.label, w.props) IN
                 AddRels(st2, Matching(st2, w.src), w.type,
                         Matching(st2, Pattern(w.label, w.props)))
      [] OTHER -> st

----------------------------------------------------------------------------
(* Statements shared by both loaders *)

\* Mutant: load_project does not reset the store.
_clear_database_skipped == <<>>

_clear_database == <<Clear>>

_create_project(project_name, project_path) ==
    <<Create("Project", [name |-> project_name, path |-> project_path])>>

_create_package(package_name) ==
    <<MergeNode("Package", [name |-> package_name])>>

\* Code points of the atoms package names are made of, for sorted().
CodePoint(a) ==
    CASE a = "." -> 46 [] a = "a" -> 97 [] a = "b" -> 98 [] a = "c" -> 99
      [] a = "p" -> 112 [] OTHER -> 122

RECURSIVE StrLess(_, _)
\* Python's s < t on strings
StrLess(s, t) ==
    IF Len(t) = 0 THEN FALSE
    ELSE IF Len(s) = 0 THEN TRUE
    ELSE IF s[1] = t[1] THEN StrLess(Tail(s), Tail(t))
    ELSE CodePoint(s[1]) < CodePoint(t[1])

RECURSIVE Sorted(_)
\* sorted(set)
Sorted(S) ==
    IF S = {} THEN <<>>
    ELSE LET m == CHOOSE x \in S : \A y \in S \ {x} : StrLess(x, y)
         IN <<m>> \o Sorted(S \ {m})

\* The hierarchy statements of one package: parent and child are only matched.
PackageChain(package) ==
    LET parts == Split(package, Dot) IN
    Concat([i \in 1..(Len(parts) - 1) |->
        LET parent_package == Join(SubSeq(parts, 1, i), Dot)
            child_package == Join(SubSeq(parts, 1, i + 1), Dot)
        IN IF parent_package # Empty /\ child_package # Empty
           THEN <<MergeRel(Pattern("Package", [name |-> parent_package]), "CONTAINS",
                           Pattern("Package", [name |-> child_package]))>>
           ELSE <<>>])

_create_package_hierarchy(packages) ==
    LET sorted_packages == Sorted(packages) IN
    Concat([k \in DOMAIN sorted_packages |-> PackageChain(sorted_packages[k])])

\* _create_file of graph.py; graph_upsert_v2.py adds the Project edge.
_create_file(file_name, file_path, package_name, with_project) ==
    <<MergeNode("File", [name |-> file_name, path |-> file_path])>>
    \o (IF Truthy(package_name)
        THEN <<MergeRel(Pattern("Package", [name |-> package_name]), "CONTAINS",
                        Pattern("File", [path |-> file_path]))>>
        ELSE <<>>)
    \o (IF with_project
        THEN <<MergeRel(Pattern("Project", NoProps), "CONTAINS",
                        Pattern("File", [path |-> file_path]))>>
        ELSE <<>>)

\* The two CONTAINS edges of a Class or Interface node.
TypeContainment(label, package_name, file_path, full_name) ==
    (IF Truthy(package_name)
     THEN <<MergeRel(Pattern("Package", [name |-> package_name]), "CONTAINS",
                     Pattern(label, [fullName |-> full_name]))>>
     ELSE <<>>)
    \o <<MergeRel(Pattern("File", [path |-> file_path]), "CONTAINS",
                  Pattern(label, [fullName |-> full_name]))>>

\* Mutant: a parent that is not in the store is created as a placeholder.
_create_extends_relationship_placeholder(child_full_name, parent_name) ==
    <<MatchMergeNodeRel(Pattern("", [fullName |-> child_full_name]), "EXTENDS",
                        "Class", [name |-> parent_name])>>

_create_extends_relationship(child_full_name, parent_name) ==
    <<MergeRel(Pattern("", [fullName |-> child_full_name]), "EXTENDS",
               Pattern("", [name |-> parent_name]))>>

_create_implements_relationship(class_full_name, interface_name) ==
    <<MergeRel(Pattern("Class", [fullName |-> class_full_name]), "IMPLEMENTS",
               Pattern("Interface", [name |-> interface_name]))>>

DeclaresRel(parent_full_name, method_id) ==
    MergeRel(Pattern("", [fullName |-> parent_full_name]), "DECLARES",
             Pattern("Method", [id |-> method_id]))

\* The package names the first loop adds to the set `packages`.
PackagesOf(fs, skip_errors) ==
    {Get(fs[i].rec, "package", None) :
        i \in {j \in DOMAIN fs :
                /\ ~(skip_errors /\ IsError(fs[j].rec))
                /\ Truthy(Get(fs[j].rec, "package", None))}}

PackageWrites(fs, skip_errors) ==
    Concat([i \in DOMAIN fs |->
        IF ~(skip_errors /\ IsError(fs[i].rec))
           /\ Truthy(Get(fs[i].rec, "package", None))
        THEN _create_package(fs[i].rec.package)
        ELSE <<>>])

----------------------------------------------------------------------------
(* graph_upsert_v2.py: CodeAnalyzerGraphLoader *)

\* x if x else default
OrElse(x, default) == IF Truthy(x) THEN x ELSE default

v2_create_import(file_path, import_stmt) ==
    <<MergeNode("Import", [name |-> import_stmt]),
      MergeRel(Pattern("File", [path |-> file_path]), "IMPORTS",
               Pattern("Import", [name |-> import_stmt]))>>

v2_create_class(properties, package_name, file_path) ==
    <<MergeNode("Class", properties)>>
    \o TypeContainment("Class", package_name, file_path, properties.fullName)

v2_create_interface(properties, package_name, file_path) ==
    <<MergeNode("Interface", properties)>>
    \o TypeContainment("Interface", package_name, file_path, properties.fullName)

v2_create_field(field_info, class_full_name) ==
    LET field_id == class_full_name \o <<Dot>> \o field_info.name IN
    <<MergeNode("Field", [name |-> field_info.name,
                          type |-> Get(field_info, "type", Empty),
                          id |-> field_id,
                          class_name |-> class_full_name]),
      MergeRel(Pattern("Class", [fullName |-> class_full_name]), "HAS_FIELD",
               Pattern("Field", [id |-> field_id]))>>

\* names_only: the record's parameters are plain strings (java_ast.py), and
\* param_info['name'] raises.
v2_create_parameter(param_info, method_id, names_only) ==
    IF names_only THEN <<Raise>>
    ELSE LET param_id == method_id \o <<Dot>> \o param_info.name IN
    <<MergeNode("Parameter", [name |-> param_info.name,
                              type |-> OrElse(Get(param_info, "type", Empty), Empty),
                              id |-> param_id,
                              method_id |-> method_id]),
      MergeRel(Pattern("Method", [id |-> method_id]), "HAS_PARAMETER",
               Pattern("Parameter", [id |-> param_id]))>>

\* Mutant: a missing return type is stored as the empty string.
v2_create_method_empty_return(method_info, parent_name, default_return, names_only) ==
    LET method_id == parent_name \o <<Dot>> \o method_info.name
        parameters == Get(method_info, "parameters", <<>>)
    IN
    <<MergeNode("Method",
        [name |-> method_info.name,
         id |-> method_id,
         returnType |-> OrElse(Get(method_info, "return_type", default_return), Empty),
         documentation |-> OrElse(Get(method_info, "documentation", Empty), Empty),
         description |-> OrElse(Get(method_info, "description", Empty), Empty),
         body |-> OrElse(Get(method_info, "body", Empty), Empty),
         parent_name |-> parent_name]),
      DeclaresRel(parent_name, method_id)>>
    \o Concat([k \in DOMAIN parameters |->
            v2_create_parameter(parameters[k], method_id, names_only)])

v2_create_method(method_info, parent_name, default_return, names_only) ==
    LET method_id == parent_name \o <<Dot>> \o method_info.name
        parameters == Get(method_info, "parameters", <<>>)
    IN
    <<MergeNode("Method",
        [name |-> method_info.name,
         id |-> method_id,
         returnType |-> OrElse(Get(method_info, "return_type", default_return), tVoid),
         documentation |-> OrElse(Get(method_info, "documentation", Empty), Empty),
         description |-> OrElse(Get(method_info, "description", Empty), Empty),
         body |-> OrElse(Get(method_info, "body", Empty), Empty),
         parent_name |-> parent_name]),
      DeclaresRel(parent_name, method_id)>>
    \o Concat([k \in DOMAIN parameters |->
            v2_create_parameter(parameters[k], method_id, names_only)])

v2_class_writes(class_info, package, file_path, names_only) ==
    LET full_class_name == FullName(package, class_info.name)
        extends == Get(class_info, "extends", None)
        fields == Get(class_info, "fields", <<>>)
        methods == Get(class_info, "methods", <<>>)
        implements == Get(class_info, "implements", <<>>)
    IN
    v2_create_class([name |-> class_info.name, fullName |-> full_class_name,
                     extends |-> OrElse(extends, Empty)], package, file_path)
    \o Concat([k \in DOMAIN fields |-> v2_create_field(fields[k], full_class_name)])
    \o Concat([k \in DOMAIN methods |->
            v2_create_method(methods[k], full_class_name, tVoid, names_only)])
    \o (IF Truthy(extends)
        THEN _create_extends_relationship(full_class_name, extends) ELSE <<>>)
    \o Concat([k \in DOMAIN implements |->
            _create_implements_relationship(full_class_name, implements[k])])

v2_interface_writes(interface_info, package, file_path, names_only) ==
    LET full_interface_name == FullName(package, interface_info.name)
        extends == Get(interface_info, "extends", <<>>)
        methods == Get(interface_info, "methods", <<>>)
    IN
    v2_create_interface([name |-> interface_info.name,
                         fullName |-> full_interface_name], package, file_path)
    \o Concat([k \in DOMAIN methods |->
            v2_create_method(methods[k], full_interface_name, Empty, names_only)])
    \o Concat([k \in DOMAIN extends |->
            _create_extends_relationship(full_interface_name, extends[k])])

\* The second loop's body: an error record is not told apart from a file.
v2_file_writes(file_path, file_info, names_only) ==
    LET package == Get(file_info, "package", None)
        imports == Get(file_info, "imports", <<>>)
        classes == Get(file_info, "classes", <<>>)
        interfaces == Get(file_info, "interfaces", <<>>)
    IN
    _create_file(Basename(file_path), file_path, package, TRUE)
    \o Concat([k \in DOMAIN imports |-> v2_create_import(file_path, imports[k])])
    \o Concat([k \in DOMAIN classes |->
            v2_class_writes(classes[k], package, file_path, names_only)])
    \o Concat([k \in DOMAIN interfaces |->
            v2_interface_writes(interfaces[k], package, file_path, names_only)])

\* Mutant: the edge is drawn from the imported file to the importing one.
_create_file_depends_on_relationship_reversed(source_file, target_file) ==
    <<MergeRel(Pattern("File", [path |-> target_file]), "DEPENDS_ON",
               Pattern("File", [path |-> source_file]))>>

_create_file_depends_on_relationship(source_file, target_file) ==
    <<MergeRel(Pattern("File", [path |-> source_file]), "DEPENDS_ON",
               Pattern("File", [path |-> target_file]))>>

v2_dependency_writes(file_path, file_info) ==
    LET deps == Get(file_info, "dependencies", <<>>) IN
    Concat([k \in DOMAIN deps |->
        IF deps[k].type = "import" /\ Truthy(Get(deps[k], "file", None))
        THEN _create_file_depends_on_relationship(file_path, deps[k].file)
        ELSE <<>>])

\* CodeAnalyzerGraphLoader.load_project: the statements in the order issued.
v2_load_project(fs, names_only) ==
    _clear_database
    \o _create_project(Basename(ProjectPath), ProjectPath)
    \o PackageWrites(fs, FALSE)
    \o _create_package_hierarchy(PackagesOf(fs, FALSE))
    \o Concat([i \in DOMAIN fs |-> v2_file_writes(fs[i].key, fs[i].rec, names_only)])
    \o Concat([i \in DOMAIN fs |-> v2_dependency_writes(fs[i].key, fs[i].rec)])

----------------------------------------------------------------------------
(* graph.py: JavaProjectGraphLoader *)

graph_create_method(method_info, parent_full_name) ==
    LET method_id == parent_full_name \o <<Dot>> \o method_info.name
        return_type == Get(method_info, "return_type", None)
    IN
    <<MergeNode("Method",
        [name |-> method_info.name,
         id |-> method_id,
         returnType |-> IF return_type = None THEN tVoid ELSE return_type]),
      DeclaresRel(parent_full_name, method_id)>>

graph_class_writes(class_info, package, file_path) ==
    LET full_class_name == FullName(package, class_info.name)
        extends == Get(class_info, "extends", None)
        methods == Get(class_info, "methods", <<>>)
        implements == Get(class_info, "implements", <<>>)
    IN
    <<MergeNode("Class", [name |-> class_info.name, fullName |-> full_class_name])>>
    \o TypeContainment("Class", package, file_path, full_class_name)
    \o Concat([k \in DOMAIN methods |-> graph_create_method(methods[k], full_class_name)])
    \o (IF Truthy(extends)
        THEN _create_extends_relationship(full_class_name, extends) ELSE <<>>)
    \o Concat([k \in DOMAIN implements |->
            _create_implements_relationship(full_class_name, implements[k])])

graph_interface_writes(interface_info, package, file_path) ==
    LET full_interface_name == FullName(package, interface_info.name)
        extends == Get(interface_info, "extends", <<>>)
        methods == Get(interface_info, "methods", <<>>)
    IN
    <<MergeNode("Interface", [name |-> interface_info.name,
                              fullName |-> full_interface_name])>>
    \o TypeContainment("Interface", package, file_path, full_interface_name)
    \o Concat([k \in DOMAIN methods |->
            graph_create_method(methods[k], full_interface_name)])
    \o Concat([k \in DOMAIN extends |->
            _create_extends_relationship(full_interface_name, extends[k])])

graph_file_writes(file_path, file_info) ==
    IF IsError(file_info) THEN <<>>
    ELSE
    LET package == Get(file_info, "package", None)
        classes == Get(file_info, "classes", <<>>)
        interfaces == Get(file_info, "interfaces", <<>>)
    IN
    _create_file(Basename(file_path), file_path, package, FALSE)
    \o Concat([k \in DOMAIN classes |->
            graph_class_writes(classes[k], package, file_path)])
    \o Concat([k \in DOMAIN interfaces |->
            graph_interface_writes(interfaces[k], package, file_path)])

_create_import_relationship(file_path, import_target) ==
    <<MatchMergeNodeRel(Pattern("File", [path |-> file_path]), "IMPORTS",
                        "Import", [name |-> import_target])>>

graph_dependency_writes(file_path, file_info) ==
    IF IsError(file_info) THEN <<>>
    ELSE
    LET deps == Get(file_info, "dependencies", <<>>) IN
    Concat([k \in DOMAIN deps |->
        IF deps[k].type = "import"
        THEN _create_import_relationship(file_path, deps[k].target)
        ELSE <<>>])

\* JavaProjectGraphLoader.load_project: the statements in the order issued.
graph_load_project(fs) ==
    _clear_database
    \o _create_project(Basename(ProjectPath), ProjectPath)
    \o PackageWrites(fs, TRUE)
    \o _create_package_hierarchy(PackagesOf(fs, TRUE))
    \o Concat([i \in DOMAIN fs |-> graph_file_writes(fs[i].key, fs[i].rec)])
    \o Concat([i \in DOMAIN fs |-> graph_dependency_writes(fs[i].key, fs[i].rec)])

----------------------------------------------------------------------------
(* The pipeline *)

Loaders == {"graph", "graph_upsert_v2"}

load_project(ld, an, fs) ==
    IF ld = "graph" THEN graph_load_project(fs)
    ELSE v2_load_project(fs, an = "java_ast")

\* What the store may hold before the load: nothing, or an earlier graph.
StaleStore ==
    [nodes |-> {[id |-> 1, label |-> "Project",
                 props |-> [name |-> <<"o">>, path |-> <<"o">>]],
                [id |-> 2, label |-> "Interface",
                 props |-> [name |-> nI, fullName |-> FullName(pkgP, nI)]]},
     rels |-> {[src |-> 1, type |-> "CONTAINS", dst |-> 2]},
     next |-> 3]

\* find_java_files: the discovered files in os.walk order, paths distinct.
Projects ==
    {p \in UNION {[1..n -> SourcePool] : n \in 1..MaxFiles} :
        \A i, j \in DOMAIN p : i # j => p[i].path # p[j].path}

Init ==
    /\ analyzer \in Analyzers
    /\ loader \in Loaders
    /\ sources \in Projects
    /\ files = <<>>
    /\ pc = "extract"
    /\ writes = <<>>
    /\ wi = 0
    /\ store \in {EmptyStore, StaleStore}
    /\ run = 1
    /\ before = store
    /\ submitted = 0
    /\ pending = {}
    /\ results = {}

\* project_structure['files'][relative_path] = record
DictSet(fs, key, rec) ==
    IF \E i \in DOMAIN fs : fs[i].key = key
    THEN [i \in DOMAIN fs |-> IF fs[i].key = key THEN [key |-> key, rec |-> rec]
                              ELSE fs[i]]
    ELSE Append(fs, [key |-> key, rec |-> rec])

\* executor.submit(process_java_file, file_path): the loop submits the task
\* of the next file once the record of the file before it is stored.
SubmitTask ==
    /\ pc = "extract"
    /\ submitted = Len(files)
    /\ submitted < Len(sources)
    /\ submitted' = submitted + 1
    /\ pending' = pending \cup {submitted + 1}
    /\ UNCHANGED <<analyzer, loader, sources, files, pc, writes, wi, store, run,
                   before, results>>

\* A worker thread finishes process_java_file for one submitted file.
TaskCompletes ==
    /\ \E k \in pending :
        /\ pending' = pending \ {k}
        /\ results' = results \cup
                {[idx |-> k, rec |-> process_java_file(analyzer, sources[k])]}
    /\ UNCHANGED <<analyzer, loader, sources, files, pc, writes, wi, store, run,
                   before, submitted>>

\* .result() returns for the task just submitted and the loop stores the
\* record under the file's relative path.
StoreResult ==
    /\ pc = "extract"
    /\ \E r \in results :
        /\ r.idx = Len(files) + 1
        /\ files' = DictSet(files, sources[r.idx].path, r.rec)
        /\ results' = results \ {r}
    /\ UNCHANGED <<analyzer, loader, sources, pc, writes, wi, store, run, before,
                   submitted, pending>>

\* Mutant: the analysis starts as soon as the last task has been submitted.
Analyze_after_submission ==
    /\ pc = "extract"
    /\ submitted = Len(sources)
    /\ files' = Resolve(analyzer, files)
    /\ pc' = "load"
    /\ writes' = load_project(loader, analyzer, files')
    /\ wi' = 1
    /\ UNCHANGED <<analyzer, loader, sources, store, run, before, submitted, pending, results>>

\* analyze_relationships (and analyze_object_references) and the dump; the
\* loader then reads the dumped model, which fixes the statements it issues.
Analyze ==
    /\ pc = "extract"
    /\ Len(files) = Len(sources)
    /\ pending = {}
    /\ files' = Resolve(analyzer, files)
    /\ pc' = "load"
    /\ writes' = load_project(loader, analyzer, files')
    /\ wi' = 1
    /\ UNCHANGED <<analyzer, loader, sources, store, run, before, submitted, pending, results>>

\* The next statement of load_project runs to completion.
IssueWrite ==
    /\ pc = "load"
    /\ wi <= Len(writes)
    /\ ~Fails(writes[wi])
    /\ store' = ApplyWrite(store, writes[wi])
    /\ wi' = wi + 1
    /\ UNCHANGED <<analyzer, loader, sources, files, pc, writes, run, before, submitted, pending, results>>

\* Mutant: a failing statement is skipped and the load goes on.
WriteFails_skipping ==
    /\ pc = "load"
    /\ wi <= Len(writes)
    /\ Fails(writes[wi])
    /\ wi' = wi + 1
    /\ UNCHANGED <<analyzer, loader, sources, files, pc, writes, store, run, before, submitted, pending, results>>

\* The next statement raises: load_project propagates it and stops.
WriteFails ==
    /\ pc = "load"
    /\ wi <= Len(writes)
    /\ Fails(writes[wi])
    /\ pc' = "failed"
    /\ UNCHANGED <<analyzer, loader, sources, files, writes, wi, store, run, before, submitted, pending, results>>

\* load_project returns.
LoadDone ==
    /\ pc = "load"
    /\ wi = Len(writes) + 1
    /\ pc' = "done"
    /\ UNCHANGED <<analyzer, loader, sources, files, writes, wi, store, run, before, submitted, pending, results>>

\* load_project is called once more on the same dumped model.
Reload ==
    /\ pc = "done"
    /\ run = 1
    /\ run' = 2
    /\ before' = store
    /\ pc' = "load"
    /\ wi' = 1
    /\ UNCHANGED <<analyzer, loader, sources, files, writes, store, submitted, pending, results>>

Next ==
    \/ SubmitTask \/ TaskCompletes \/ StoreResult
    \/ Analyze \/ IssueWrite \/ WriteFails \/ LoadDone \/ Reload

Spec == Init /\ [][Next]_vars

----------------------------------------------------------------------------
(* Reading the store and the files mapping *)

NodesWith(label, k, v) ==
    {n \in store.nodes : n.label = label /\ k \in DOMAIN n.props /\ n.props[k] = v}

HasEdge(S, type, T) ==
    \E a \in S, b \in T : [src |-> a.id, type |-> type, dst |-> b.id] \in store.rels

Loaded == {i \in DOMAIN files : ~IsError(files[i].rec)}
Failed == {i \in DOMAIN files : IsError(files[i].rec)}

\* Every type declaration of record i, classes and interfaces alike.
TypesOfRec(i) ==
    Range(Get(files[i].rec, "classes", <<>>))
    \cup Range(Get(files[i].rec, "interfaces", <<>>))

Resolved == pc \in {"load", "done", "failed"}

----------------------------------------------------------------------------
(* C1..C4: the loaded graph *)

\* The files mapping is the two-file scenario: A.java (package p, class A
\* implementing I) and B.java (package p, interface I), in either order.
C1_Scenario ==
    /\ Len(files) = 2
    /\ \E a, b \in DOMAIN files :
        /\ a # b
        /\ files[a].key = <<"A", ".java">>
        /\ files[b].key = <<"B", ".java">>
        /\ ~IsError(files[a].rec) /\ ~IsError(files[b].rec)
        /\ files[a].rec.package = pkgP /\ files[b].rec.package = pkgP
        /\ Len(files[a].rec.classes) = 1 /\ Len(files[a].rec.interfaces) = 0
        /\ files[a].rec.classes[1].name = nA
        /\ files[a].rec.classes[1].implements = <<nI>>
        /\ Len(files[b].rec.classes) = 0 /\ Len(files[b].rec.interfaces) = 1
        /\ files[b].rec.interfaces[1].name = nI

\* C1: after a completed load of the two-file scenario the store holds
\* Class p.A, Interface p.I, the edge p.A -[:IMPLEMENTS]-> p.I, Package p
\* containing both types and each File containing its own type, whichever
\* of the two files comes first in the files mapping.
C1_ScenarioGraph ==
    (pc = "done" /\ C1_Scenario) =>
        LET cA == NodesWith("Class", "fullName", FullName(pkgP, nA))
            iI == NodesWith("Interface", "fullName", FullName(pkgP, nI))
            pP == NodesWith("Package", "name", pkgP)
        IN  /\ cA # {} /\ iI # {}
            /\ HasEdge(cA, "IMPLEMENTS", iI)
            /\ HasEdge(pP, "CONTAINS", cA) /\ HasEdge(pP, "CONTAINS", iI)
            /\ HasEdge(NodesWith("File", "path", <<"A", ".java">>), "CONTAINS", cA)
            /\ HasEdge(NodesWith("File", "path", <<"B", ".java">>), "CONTAINS", iI)

\* C2: after a completed load, for every package name observed as a file's
\* package and every proper dotted prefix q of it with next-longer prefix
\* q2, the store holds Package q, Package q2 and q -[:CONTAINS]-> q2, also
\* when no file declares q or q2 as its own package.
C2_PackageHierarchyComplete ==
    pc = "done" =>
        \A i \in Loaded :
            Truthy(Get(files[i].rec, "package", None)) =>
                LET parts == Split(files[i].rec.package, Dot) IN
                \A k \in 1..(Len(parts) - 1) :
                    LET q == NodesWith("Package", "name", Join(SubSeq(parts, 1, k), Dot))
                        q2 == NodesWith("Package", "name",
                                        Join(SubSeq(parts, 1, k + 1), Dot))
                    IN q # {} /\ q2 # {} /\ HasEdge(q, "CONTAINS", q2)

\* The property that is the natural key of a label's nodes.
NaturalKey(label) ==
    CASE label = "Package" -> "name"
      [] label = "Import" -> "name"
      [] label = "File" -> "path"
      [] label \in {"Class", "Interface"} -> "fullName"
      [] label \in {"Method", "Field", "Parameter"} -> "id"
      [] OTHER -> "name"

\* C3: after a completed load no two nodes of the same label share their
\* natural key (Package name, File path, Import name, Class/Interface
\* fullName, Method/Field/Parameter id), whatever their other attributes.
C3_NaturalKeyUnique ==
    pc = "done" =>
        \A n, m \in store.nodes :
            (/\ n.label = m.label
             /\ n.label # "Project"
             /\ n.props[NaturalKey(n.label)] = m.props[NaturalKey(m.label)])
            => n = m

\* C4: for every entry of the files mapping that is an error record the
\* load creates no node and no relationship for that path.
C4_ErrorRecordNotLoaded ==
    pc = "done" =>
        \A i \in Failed :
            /\ NodesWith("File", "path", files[i].key) = {}
            /\ \A n \in store.nodes :
                n.label # "Project" =>
                    \A k \in DOMAIN n.props : n.props[k] # files[i].key

----------------------------------------------------------------------------
(* C5..C10: extraction and resolution *)

\* C5: analyze_java_project produces exactly one record per discovered
\* file, keyed by its relative path: a file whose read or parse raises
\* yields an error record carrying the path and the error text, and every
\* other file still yields its declaration record.
C5_OneRecordPerFile ==
    /\ Len(files) <= Len(sources)
    /\ pc # "extract" => Len(files) = Len(sources)
    /\ \A i, j \in DOMAIN files : files[i].key = files[j].key => i = j
    /\ \A i \in DOMAIN files :
        /\ files[i].key = sources[i].path
        /\ files[i].rec.path = AbsPath(sources[i].path)
        /\ IF sources[i].err # None
           THEN /\ IsError(files[i].rec)
                /\ files[i].rec.error = sources[i].err
           ELSE /\ ~IsError(files[i].rec)
                /\ {"package", "imports", "classes", "interfaces"}
                      \subseteq DOMAIN files[i].rec
                /\ Len(files[i].rec.classes) + Len(files[i].rec.interfaces)
                      = Len(sources[i].types)
    /\ Cardinality(Failed)
          = Cardinality({i \in DOMAIN files : sources[i].err # None})

\* A file that raised is followed by a file that was still extracted.
C5_Witness ==
    /\ pc # "extract"
    /\ \E i, j \in DOMAIN files :
        i < j /\ IsError(files[i].rec) /\ ~IsError(files[j].rec)
              /\ Len(files[j].rec.classes) > 0

\* The file pointers the resolver wrote into record i.
FilePointers(i) ==
    {d.file : d \in {e \in Range(Get(files[i].rec, "dependencies", <<>>)) :
                        "file" \in DOMAIN e}}
    \cup
    (IF analyzer = "java_ast_analyzer"
     THEN {r.to_file : r \in Range(Get(files[i].rec, "object_references", <<>>))}
     ELSE {})

\* C6: after relationship analysis the path of an error record is never a
\* value of the Project Index and never the file pointer of a dependency
\* record or the to_file of an object reference, and the error record
\* itself receives no dependencies list.
C6_ErrorRecordIsolated ==
    Resolved =>
        \A e \in Failed :
            /\ files[e].key \notin Range(class_map(analyzer, files))
            /\ \A i \in DOMAIN files : files[e].key \notin FilePointers(i)
            /\ "dependencies" \notin DOMAIN files[e].rec
            /\ DOMAIN files[e].rec = {"path", "error"}

\* An error record beside a file whose dependency was resolved.
C6_Witness ==
    /\ Resolved
    /\ Failed # {}
    /\ \E i \in Loaded : FilePointers(i) # {}

\* File f declares a class whose fully-qualified name is q.
DeclaresClass(f, q) ==
    \E c \in Range(Get(files[f].rec, "classes", <<>>)) :
        FullName(Get(files[f].rec, "package", Empty), c.name) = q

\* The import dependency of g on q points at file f.
ImportResolvedTo(g, q, f) ==
    \E d \in Range(Get(files[g].rec, "dependencies", <<>>)) :
        /\ d.type = "import" /\ d.target = q
        /\ "file" \in DOMAIN d /\ d.file = files[f].key

\* The fully-qualified names of classes declared in loaded files.
ClassNames ==
    UNION {{FullName(Get(files[f].rec, "package", Empty), c.name) :
                c \in Range(Get(files[f].rec, "classes", <<>>))} : f \in Loaded}

\* C7 as stated: if F declares a class with fully-qualified name q, no
\* other file declares a type with fully-qualified name q, and G imports q,
\* then G has an import record with target q whose file pointer is F.
C7_ExactImportResolved ==
    Resolved =>
        \A f, g \in Loaded : \A q \in ClassNames :
            (/\ DeclaresClass(f, q)
             /\ \A h \in Loaded \ {f} : \A t \in TypesOfRec(h) :
                    FullName(Get(files[h].rec, "package", Empty), t.name) # q
             /\ q \in Range(files[g].rec.imports))
            => ImportResolvedTo(g, q, f)

\* C7 amended: ... and no other file declares a type whose fully-qualified
\* name or simple name is q ...
C7_ExactImportResolvedUnlessShadowed ==
    Resolved =>
        \A f, g \in Loaded : \A q \in ClassNames :
            (/\ DeclaresClass(f, q)
             /\ \A h \in Loaded \ {f} : \A t \in TypesOfRec(h) :
                    /\ FullName(Get(files[h].rec, "package", Empty), t.name) # q
                    /\ t.name # q
             /\ q \in Range(files[g].rec.imports))
            => ImportResolvedTo(g, q, f)

\* Another file's import of a class is resolved to the declaring file.
C7_Witness ==
    /\ Resolved
    /\ \E f, g \in Loaded : \E q \in ClassNames :
        /\ f # g
        /\ DeclaresClass(f, q)
        /\ q \in Range(files[g].rec.imports)
        /\ ImportResolvedTo(g, q, f)


\* The names the Project Index has as keys: the simple and fully-qualified
\* names of the classes (and, in the heuristic resolver, interfaces) declared
\* in loaded files.
IndexKeys ==
    UNION {UNION {{t.name, FullName(Get(files[f].rec, "package", Empty), t.name)} :
                    t \in IF Heuristic(analyzer) THEN TypesOfRec(f)
                          ELSE Range(Get(files[f].rec, "classes", <<>>))} :
           f \in Loaded}

\* The targets of the import records of record i, in order.
ImportTargets(i) ==
    LET deps == Get(files[i].rec, "dependencies", <<>>)
        imps == SelectSeqIdx(deps, LAMBDA d : d.type = "import")
    IN [k \in DOMAIN imps |-> imps[k].target]

\* The heuristic resolver takes the import for internal.
LooksInternal(imp) ==
    \/ imp \in IndexKeys
    \/ \E k \in IndexKeys : EndsWith(imp, k) \/ k \in Range(Split(imp, Dot))

\* C8 as stated: for every successfully extracted file and every raw import
\* string of it, one dependency of type import with that target is
\* recorded; an import that does not resolve has a record with no pointer.
C8_EveryImportRecorded ==
    Resolved =>
        \A i \in Loaded :
            /\ ImportTargets(i) = files[i].rec.imports
            /\ \A d \in Range(files[i].rec.dependencies) :
                d.type = "import" => ("file" \in DOMAIN d <=> d.target \in IndexKeys)

\* C8 amended: the exact resolver (java_ast.py) records one import dependency
\* per raw import string; the heuristic resolver (java_ast_v2.py,
\* java_ast_analyzer.py) records one per raw import string that is an index
\* key, ends with an index key or has an index key as a dot segment, and none
\* for any other import; a record carries a file pointer exactly when its
\* target is an index key.
C8_InternalImportsRecorded ==
    Resolved =>
        \A i \in Loaded :
            /\ ImportTargets(i) =
                  IF Heuristic(analyzer)
                  THEN SelectSeqIdx(files[i].rec.imports, LooksInternal)
                  ELSE files[i].rec.imports
            /\ \A d \in Range(files[i].rec.dependencies) :
                d.type = "import" => ("file" \in DOMAIN d <=> d.target \in IndexKeys)

\* The heuristic resolver kept an unresolved import, by a segment match
\* only, and dropped an external one of the same file.
C8_Witness ==
    /\ Resolved
    /\ Heuristic(analyzer)
    /\ \E i \in Loaded :
        /\ \E d \in Range(files[i].rec.dependencies) :
            /\ d.type = "import" /\ "file" \notin DOMAIN d
            /\ \A k \in IndexKeys : ~EndsWith(d.target, k)
        /\ \E imp \in Range(files[i].rec.imports) :
            imp \notin Range(ImportTargets(i))

\* The files that declare a type with simple or fully-qualified name k.
DeclaringFiles(k) ==
    {files[f].key : f \in {h \in Loaded : \E t \in TypesOfRec(h) :
        k \in {t.name, FullName(Get(files[h].rec, "package", Empty), t.name)}}}

\* C9: in the heuristic resolver an import string that is not itself an
\* index key but ends with an indexed name, or has an indexed simple name
\* as one of its dot segments, is resolved: its dependency record carries
\* the path of the file that declares the matched name.
C9_HeuristicImportResolved ==
    (Resolved /\ Heuristic(analyzer)) =>
        \A i \in Loaded : \A imp \in Range(files[i].rec.imports) :
            \A k \in IndexKeys :
                (/\ imp \notin IndexKeys
                 /\ EndsWith(imp, k) \/ k \in Range(Split(imp, Dot)))
                => \E d \in Range(files[i].rec.dependencies) :
                    /\ d.type = "import" /\ d.target = imp
                    /\ "file" \in DOMAIN d
                    /\ d.file \in DeclaringFiles(k)

\* Every method of the types ts is recorded with the sentinel when its
\* declaration in the source types ds has no return type.
SentinelKept(ds, ts) ==
    \A c \in DOMAIN ts : \A j \in DOMAIN ts[c].methods :
        ds[c].methods[j].rkind = "void_type" =>
            ts[c].methods[j].return_type = tVoid

\* C10: in every record the extractor produces, a method declared without a
\* return type has return_type equal to the sentinel "void", never None or
\* the empty string.
C10_ReturnTypeSentinel ==
    \A i \in Loaded :
        /\ SentinelKept(ClassesOf(sources[i]), files[i].rec.classes)
        /\ SentinelKept(InterfacesOf(sources[i]), files[i].rec.interfaces)

----------------------------------------------------------------------------
(* C11..C20: what the loader writes *)

MethodNodes == {n \in store.nodes : n.label = "Method"}

TextProps == {"documentation", "description", "body"}

\* The id the loader gives the method m of the type t of record i.
MethodIdOf(i, t, m) ==
    FullName(Get(files[i].rec, "package", None), t.name) \o <<Dot>> \o m.name

\* The methods of the loaded model: <<file index, type record, method record>>.
RecordMethods ==
    UNION {UNION {{<<i, t, t.methods[j]>> : j \in DOMAIN t.methods} :
                    t \in TypesOfRec(i)} : i \in Loaded}

NodeKey(n) == [label |-> n.label, props |-> n.props]

NodeById(st, id) == CHOOSE n \in st.nodes : n.id = id

\* The graph up to node identity: each distinct node key with the number of
\* nodes that carry it, and each relationship between node keys.
Canon(st) ==
    [nodes |-> {[key |-> NodeKey(n),
                 count |-> Cardinality({m \in st.nodes : NodeKey(m) = NodeKey(n)})] :
                    n \in st.nodes},
     rels |-> {[src |-> NodeKey(NodeById(st, r.src)), type |-> r.type,
                dst |-> NodeKey(NodeById(st, r.dst))] : r \in st.rels}]

\* C12: running load_project twice on the same input model, each run
\* starting with its own reset, leaves after the second run the same nodes
\* and relationships, up to key and property equality, as after the first,
\* whatever the store held before the first run.
C12_ReloadSameGraph ==
    (run = 2 /\ pc = "done") => Canon(store) = Canon(before)

\* The second run completed on a graph with relationships; the first run
\* had started from a store that held an earlier graph, and every node of
\* the second run is a new node.
C12_Witness ==
    /\ run = 2
    /\ pc = "done"
    /\ Cardinality(store.rels) > 2
    /\ before.nodes # {}
    /\ \A n \in before.nodes : n.id >= 3
    /\ store.nodes \cap before.nodes = {}

RECURSIVE ApplyAll(_, _)
\* The store after the statements ws ran one after the other.
ApplyAll(st, ws) ==
    IF Len(ws) = 0 THEN st ELSE ApplyAll(ApplyWrite(st, Head(ws)), Tail(ws))

\* C13: if a write issued by load_project fails, no later write of that load
\* is issued, the error reaches the caller of load_project, and the effects
\* of all writes issued before the failing one, the reset included, remain
\* in the store.
C13_FailureAborts ==
    /\ [](pc = "failed" =>
            /\ wi \in DOMAIN writes
            /\ Fails(writes[wi])
            /\ store = ApplyAll(before, SubSeq(writes, 1, wi - 1)))
    /\ [][/\ (pc = "load" /\ wi \in DOMAIN writes /\ Fails(writes[wi])) =>
                (pc' = "failed" /\ store' = store /\ wi' = wi)
          /\ pc = "failed" => FALSE]_vars

\* A load failed after the reset and further writes: the earlier graph is
\* gone and part of the new one is in the store.
C13_Witness ==
    /\ pc = "failed"
    /\ wi > 2
    /\ before.nodes # {}
    /\ store.nodes # {}
    /\ store.nodes \cap before.nodes = {}
    /\ wi < Len(writes)

ProjectNodes(st) == {n \in st.nodes : n.label = "Project"}

\* C14: the reset is the first write of every load and the Project node is
\* created exactly once after it: after a completed load the store holds
\* exactly one Project node and no node or relationship that was in the
\* store before the load started.
C14_ResetThenOneProject ==
    /\ pc \in {"load", "done", "failed"} =>
        /\ writes[1] = Clear
        /\ {k \in DOMAIN writes : writes[k].op = "create" /\ writes[k].label = "Project"}
            = {2}
        /\ \A k \in DOMAIN writes : k > 1 => writes[k].op # "clear"
    /\ pc = "done" =>
        /\ Cardinality(ProjectNodes(store)) = 1
        /\ store.nodes \cap before.nodes = {}
        /\ store.rels \cap before.rels = {}

\* A load completed on a store that held a Project node, another node and
\* a relationship before it started.
C14_Witness ==
    /\ pc = "done"
    /\ ProjectNodes(before) # {}
    /\ before.nodes # ProjectNodes(before)
    /\ before.rels # {}
    /\ Cardinality(store.nodes) > 1

\* Every method of the types ts whose summarisation call raised, in the
\* source types ds, is recorded with the empty string as its description.
EmptySummaryKept(ds, ts) ==
    \A c \in DOMAIN ts : \A j \in DOMAIN ts[c].methods :
        ds[c].methods[j].llm = "raise" =>
            ts[c].methods[j].description = Empty

\* C15: when the external summarisation call is unavailable or raises for a
\* method, extraction of that file continues without error and the method's
\* description is recorded as the empty string.
C15_FailedSummaryIsEmpty ==
    analyzer = "java_ast_v2" =>
        \A i \in DOMAIN files :
            sources[i].err = None =>
                /\ ~IsError(files[i].rec)
                /\ EmptySummaryKept(ClassesOf(sources[i]), files[i].rec.classes)
                /\ EmptySummaryKept(InterfacesOf(sources[i]), files[i].rec.interfaces)

FileNode(path) == NodesWith("File", "path", path)

\* C16: after a completed load, for every loaded file and every raw import
\* string of its imports list, resolved or not, the store holds exactly one
\* Import node with that name and an IMPORTS edge from the file's File node
\* to it; a string imported by several files is one Import node.
C16_EveryImportMaterialized ==
    pc = "done" =>
        \A i \in Loaded : \A imp \in Range(files[i].rec.imports) :
            /\ Cardinality(NodesWith("Import", "name", imp)) = 1
            /\ HasEdge(FileNode(files[i].key), "IMPORTS",
                       NodesWith("Import", "name", imp))

\* The file pointers of the dependency records of file g with a type in types.
PointersOf(g, types) ==
    {d.file : d \in {e \in Range(Get(files[g].rec, "dependencies", <<>>)) :
                        e.type \in types /\ "file" \in DOMAIN e}}

\* Every pointer of file g of these types is a DEPENDS_ON edge of the store.
DependsOnEdges(g, types) ==
    \A f \in PointersOf(g, types) :
        HasEdge(FileNode(files[g].key), "DEPENDS_ON", FileNode(f))

\* The statement about to be issued is a DEPENDS_ON write.
DependsOnWrite ==
    /\ pc = "load"
    /\ wi \in DOMAIN writes
    /\ writes[wi].op = "merge_rel"
    /\ writes[wi].type = "DEPENDS_ON"

C18_TypeDependsOn ==
    pc = "done" =>
        \A g \in DOMAIN files : DependsOnEdges(g, {"extends", "implements"})

LabelOf(id) == NodeById(store, id).label

\* C19: in every store state reachable by a load, each EXTENDS edge starts
\* at a Class or Interface node and ends at a Class or Interface node (an
\* Interface only extends Interfaces), and each IMPLEMENTS edge starts at a
\* Class node and ends at an Interface node; no EXTENDS edge ends at a node
\* of another label that happens to carry the same name.
C19_TypedRelationshipEnds ==
    \A r \in store.rels :
        /\ r.type = "EXTENDS" =>
            /\ LabelOf(r.src) \in {"Class", "Interface"}
            /\ LabelOf(r.dst) \in {"Class", "Interface"}
            /\ LabelOf(r.src) = "Interface" => LabelOf(r.dst) = "Interface"
        /\ r.type = "IMPLEMENTS" =>
            /\ LabelOf(r.src) = "Class"
            /\ LabelOf(r.dst) = "Interface"

\* The relationships of the given type that end at node n.
Incoming(n, type) == {r \in store.rels : r.type = type /\ r.dst = n.id}

\* C20: after a completed load, every Method node has exactly one incoming
\* DECLARES edge, every Field node exactly one incoming HAS_FIELD edge and
\* every Parameter node exactly one incoming HAS_PARAMETER edge.
C20_SingleOwner ==
    pc = "done" =>
        \A n \in store.nodes :
            /\ n.label = "Method" => Cardinality(Incoming(n, "DECLARES")) = 1
            /\ n.label = "Field" => Cardinality(Incoming(n, "HAS_FIELD")) = 1
            /\ n.label = "Parameter" => Cardinality(Incoming(n, "HAS_PARAMETER")) = 1

----------------------------------------------------------------------------
(* C21..C30 *)

PackageOf(i) == Get(files[i].rec, "package", Empty)

\* The loaded files that declare a type with the simple name n.
DeclarersOf(n) == {j \in Loaded : \E u \in TypesOfRec(j) : u.name = n}

\* The one that comes latest in the files mapping's iteration order.
Latest(S) == CHOOSE j \in S : \A k \in S : k <= j

\* C21: the Project Index maps each bare simple name and each
\* fully-qualified name of every class and interface declared in a
\* successfully extracted file to a declaring file's path; when several
\* files declare types with the same simple name in different packages, the
\* simple name maps to the file that comes latest in the files mapping,
\* while each fully-qualified name still maps to its own file.
C21_IndexMapsEveryType ==
    Resolved =>
        LET cm == class_map(analyzer, files) IN
        \A i \in Loaded : \A t \in TypesOfRec(i) :
            LET fq == FullName(PackageOf(i), t.name)
                ds == DeclarersOf(t.name)
            IN  /\ t.name \in DOMAIN cm
                /\ fq \in DOMAIN cm
                /\ cm[t.name] \in {files[j].key : j \in ds}
                /\ cm[fq] \in {files[j].key : j \in ds}
                /\ (\E j \in ds : PackageOf(j) # PackageOf(i)) =>
                    /\ cm[t.name] = files[Latest(ds)].key
                    /\ cm[fq] = files[i].key

\* Node n is the node of a declaration of that kind in some record.
Declared(n, kind) ==
    \E i \in DOMAIN files : \E t \in Range(Get(files[i].rec, kind, <<>>)) :
        /\ n.props.name = t.name
        /\ "fullName" \in DOMAIN n.props
        /\ n.props.fullName = FullName(Get(files[i].rec, "package", None), t.name)

\* The statement about to be issued is an EXTENDS or IMPLEMENTS write.
InheritanceWrite ==
    /\ pc = "load"
    /\ wi \in DOMAIN writes
    /\ writes[wi].op \in {"merge_rel", "match_merge"}
    /\ writes[wi].type \in {"EXTENDS", "IMPLEMENTS"}

\* C22: a load never creates a node for an extends or implements target
\* name: every Class and Interface node in the store after a load is the
\* node of a declaration in some entry of the files mapping, and a target
\* that matches no existing node yields no EXTENDS/IMPLEMENTS edge and no
\* error.
C22_NoPlaceholderNodes ==
    /\ []((pc \in {"load", "done", "failed"} /\ wi > 1) =>
            \A n \in store.nodes :
                /\ n.label = "Class" => Declared(n, "classes")
                /\ n.label = "Interface" => Declared(n, "interfaces"))
    /\ [][InheritanceWrite =>
            /\ store'.nodes = store.nodes
            /\ pc' # "failed"
            /\ Matching(store, writes[wi].dst) = {} => store' = store]_vars

\* A load completed for a class whose extends target names no node: the
\* store has the class and no EXTENDS edge.
C22_Witness ==
    /\ pc = "done"
    /\ \E i \in Loaded : \E c \in Range(files[i].rec.classes) :
        /\ Truthy(c.extends)
        /\ \A n \in store.nodes : n.props.name # c.extends
        /\ NodesWith("Class", "name", c.name) # {}
    /\ \A r \in store.rels : r.type # "EXTENDS"

\* The statement w creates, when nothing matches yet, a node that pat matches.
Creates(w, pat) ==
    /\ w.op \in {"create", "merge_node", "match_merge"}
    /\ Matches([label |-> w.label, props |-> w.props], pat)

\* The node patterns a relationship statement matches its endpoints with.
Endpoints(w) ==
    IF w.op = "merge_rel" THEN {w.src, w.dst}
    ELSE IF w.op = "match_merge" THEN {w.src}
    ELSE {}

\* C23: whenever load_project issues a relationship write whose endpoint is
\* a node that this same load creates, the write that creates that endpoint
\* has already been issued; in particular every Class/Interface node of
\* every file exists before any EXTENDS or IMPLEMENTS write that targets it.
C23_ReferentsWrittenFirst ==
    pc \in {"load", "done", "failed"} =>
        \A k \in DOMAIN writes : \A pat \in Endpoints(writes[k]) :
            (\E j \in DOMAIN writes : Creates(writes[j], pat)) =>
                (\E j \in 1..(k - 1) : Creates(writes[j], pat))

\* C24: index construction and relationship resolution start only after
\* every discovered file's extraction task has completed and its record has
\* been stored in the files mapping: no state is reachable in which
\* analyze_relationships runs while an extraction task is pending or a file
\* has no record.
C24_BarrierBeforeResolution ==
    /\ [](Resolved =>
            /\ pending = {}
            /\ results = {}
            /\ submitted = Len(sources)
            /\ \A k \in DOMAIN sources :
                \E i \in DOMAIN files : files[i].key = sources[k].path)
    /\ [][(pc = "extract" /\ pc' = "load") =>
            /\ pending = {} /\ results = {}
            /\ Len(files) = Len(sources)]_vars

\* The resolver has run on a project of two files, each extracted by a
\* task of its own.
C24_Witness ==
    /\ Resolved
    /\ submitted = 2
    /\ Len(files) = 2
    /\ \E i \in DOMAIN files : "dependencies" \in DOMAIN files[i].rec

\* ThreadPoolExecutor(max_workers=max_workers): the default of the parameter.
max_workers == 4

\* C25: extraction runs concurrently across files: with at least two files
\* and max_workers of at least 2, a second extraction task can be submitted
\* while another is submitted and unfinished, and never more than
\* max_workers tasks are unfinished at the same time.
C25_TasksOverlap ==
    /\ Cardinality(pending) <= max_workers
    /\ (/\ pc = "extract"
        /\ pending # {}
        /\ Cardinality(pending) < max_workers
        /\ submitted < Len(sources)) => ENABLED SubmitTask

\* The statements of steps 3 to 10: all but the reset and the Project node.
MergeWrites == SubSeq(writes, 3, Len(writes))

\* C26: the loader's merge writes are idempotent: applying the write
\* sequence of steps 3 to 10 for a model a second time, without a reset, to
\* the store produced by a completed load of that same model adds no node
\* and no relationship.
C26_MergeWritesIdempotent ==
    (pc = "done" /\ \A k \in DOMAIN MergeWrites : ~Fails(MergeWrites[k])) =>
        LET again == ApplyAll(store, MergeWrites) IN
        /\ again.nodes = store.nodes
        /\ again.rels = store.rels

\* The simple and fully-qualified names of the classes and interfaces
\* declared in the successfully extracted files.
ProjectTypeNames ==
    UNION {UNION {{t.name, FullName(PackageOf(i), t.name)} : t \in TypesOfRec(i)} :
            i \in Loaded}

\* The extends and implements raw names of the classes of record i, in order.
InheritanceTargets(i) ==
    LET cs == files[i].rec.classes IN
    Concat([c \in DOMAIN cs |->
        (IF Truthy(cs[c].extends) THEN <<[type |-> "extends", target |-> cs[c].extends]>>
         ELSE <<>>)
        \o [j \in DOMAIN cs[c].implements |->
                [type |-> "implements", target |-> cs[c].implements[j]]]])

\* C27: for every class of a successfully extracted file, each extends and
\* implements raw name yields one dependency record of that type, and the
\* record carries a file pointer exactly when the raw name equals a simple
\* or fully-qualified name of a class or interface declared in the project,
\* the pointer being the index entry for that name; a name declared only as
\* an interface resolves the same way as one declared as a class.
C27_TypeTargetsResolved ==
    Resolved =>
        LET cm == class_map(analyzer, files) IN
        \A i \in Loaded :
            LET ds == SelectSeq(files[i].rec.dependencies,
                                LAMBDA d : d.type \in {"extends", "implements"})
            IN  /\ [k \in DOMAIN ds |-> [type |-> ds[k].type, target |-> ds[k].target]]
                    = InheritanceTargets(i)
                /\ \A k \in DOMAIN ds :
                    /\ "file" \in DOMAIN ds[k] <=> ds[k].target \in ProjectTypeNames
                    /\ "file" \in DOMAIN ds[k] => ds[k].file = cm[ds[k].target]

\* C28: every property value the loader writes on Field and Parameter nodes
\* is non-null: a field or parameter record whose declared type is missing
\* or null is stored with type equal to the empty string, so the write
\* never carries a null property.
C28_MemberWritesNonNull ==
    pc \in {"load", "done", "failed"} =>
        \A k \in DOMAIN writes :
            (writes[k].op = "merge_node" /\ writes[k].label \in {"Field", "Parameter"})
                => \A p \in DOMAIN writes[k].props : writes[k].props[p] # None

\* a occurs in b as a run of consecutive atoms
IsInfix(a, b) ==
    \E p \in 0..(Len(b) - Len(a)) : SubSeq(b, p + 1, p + Len(a)) = a

\* Every method of the types ts is recorded with a body that is text from
\* between the braces of its own block in the source types ds, and with no
\* text when it is declared without a body.
OwnBodyKept(ds, ts) ==
    \A c \in DOMAIN ts : \A j \in DOMAIN ts[c].methods :
        LET block == ds[c].methods[j].body
            body == ts[c].methods[j].body
        IN  IF block = None THEN body \in {None, Empty}
            ELSE IsInfix(body, SubSeq(block, 2, Len(block) - 1))

\* C29: extract_method_body returns only text that lies between the
\* method's own opening brace and its matching closing brace: the scan stops
\* at the line on which the brace count returns to zero, also when the
\* opening and closing brace are on the same line, and a method declared
\* without a body gets no text of a later method.
C29_BodyWithinOwnBraces ==
    analyzer = "java_ast_v2" =>
        \A i \in Loaded :
            /\ OwnBodyKept(ClassesOf(sources[i]), files[i].rec.classes)
            /\ OwnBodyKept(InterfacesOf(sources[i]), files[i].rec.interfaces)


\* The relationships of the given type that leave node n.
Outgoing(n, type) == {r \in store.rels : r.type = type /\ r.src = n.id}

\* C30: after a completed load, every Class node has at most one outgoing
\* EXTENDS edge, since a class record carries a single extends target.
C30_SingleSuperclass ==
    pc = "done" =>
        \A n \in store.nodes :
            n.label = "Class" => Cardinality(Outgoing(n, "EXTENDS")) <= 1

====
